---------------------------- MODULE Spec2Model ----------------------------
(***************************************************************************)
(* Model of the PES decoder-learning engine of the nengo_spinnaker         *)
(* ensemble executable (pes.c: pes_initialise, pes_apply), of the          *)
(* ensemble's c_main (ensemble_main.c: the one-time steps and the          *)
(* while (true) loop around the RUNNING phase), of the tick of the         *)
(* ensemble around pes_apply, and of the sdp_tx executable                  *)
(* (sdp_tx_main.c: c_main, sdp_tx_update, mcpl_callback).                   *)
(*                                                                         *)
(* pes_apply is modelled statement by statement: one action per loop test  *)
(* of the C function, over the record `call` that holds the activation     *)
(* (locals and the spike pointer) together with the decoder matrix it      *)
(* mutates in place.  value_t is the s16.15 fixed-point type, held here as *)
(* its raw integer; uint32_t arithmetic is taken modulo 2^32.              *)
(*                                                                         *)
(* Four specifications share the variables: Spec (pes_initialise and one   *)
(* call of pes_apply), SpecMain (c_main of the ensemble), SpecTick (the    *)
(* loop of c_main with the ticks of the RUNNING phase and pes_apply in     *)
(* them) and SpecTx (sdp_tx).                                              *)
(***************************************************************************)
EXTENDS Integers, Sequences, FiniteSets, TLC

VARIABLES
  pes_pc,                   \* where the PES engine is: boot, ready, halted, apply, done
  region,                   \* the PES configuration region handed to pes_initialise
  g_num_pes_learning_rules, \* pes.c:23
  g_pes_learning_rules,     \* pes.c:24; <<>> stands for NULL / nothing loaded
  n_allocations,            \* number of allocations pes_initialise has made
  init_result,              \* what pes_initialise returned: "none", "true", "false"
  population_lengths,       \* argument of pes_apply
  mem,                      \* the words at spikes[0], spikes[1], ... in memory
  modulatory_filters,       \* argument of pes_apply: the filter collection
  call,                     \* activation of pes_apply and the decoder it mutates
  decoder0,                 \* the decoder matrix as it was at the entry of the call
  main_pc,                  \* position of the ensemble's c_main
  main_failed,              \* INIT steps that have failed so far
  main_log,                 \* number of "Failed ..." diagnostics written
  main_runs,                \* number of RUNNING phases started (spin1_start calls)
  main_ticks,               \* ticks run in the current RUNNING phase
  simulation_ticks,         \* run length set by config_get_n_ticks
  main_events,              \* the statements c_main has executed, in order
  tx_pc,                    \* position of sdp_tx's c_main
  g_sdp_tx,                 \* sdp_tx_main.c:3; the transmission_delay it holds
  delay_remaining,          \* sdp_tx_main.c:4
  g_input,                  \* sdp_tx_main.c:5; what has accumulated, what is output
  ticks,                    \* the kernel's count of timer ticks
  exit_requested,           \* spin1_exit has been called in this RUNNING phase
  tx_runs,                  \* RUNNING phases sdp_tx has started
  tx_log,                   \* one record for every invocation of sdp_tx_update
  modulatory_input,         \* a packet for the modulatory filters came since their last step
  tick_log                  \* one record for every tick of the ensemble

pesVars == <<pes_pc, region, g_num_pes_learning_rules, g_pes_learning_rules,
             n_allocations, init_result, population_lengths, mem,
             modulatory_filters, call, decoder0>>
mainVars == <<main_pc, main_failed, main_log, main_runs, main_ticks,
              simulation_ticks, main_events>>
txVars == <<tx_pc, g_sdp_tx, delay_remaining, g_input, ticks, exit_requested,
            tx_runs, tx_log>>
tickVars == <<modulatory_input, tick_log>>
vars == <<pes_pc, region, g_num_pes_learning_rules, g_pes_learning_rules,
          n_allocations, init_result, population_lengths, mem,
          modulatory_filters, call, decoder0,
          main_pc, main_failed, main_log, main_runs, main_ticks,
          simulation_ticks, main_events,
          tx_pc, g_sdp_tx, delay_remaining, g_input, ticks, exit_requested,
          tx_runs, tx_log, modulatory_input, tick_log>>

---------------------------------------------------------------------------
(* Bounds of the model *)

\* At most this many learning rules in the configuration region.
MaxRules == 2
\* At most this many populations in the list handed to pes_apply.
MaxPops == 2
\* At most this many RUNNING phases of c_main.
MaxRuns == 2
\* Run lengths config_get_n_ticks may set are 0..MaxTicks.
MaxTicks == 2
\* Transmission delays of sdp_tx are 0..MaxDelay.
MaxDelay == 3
\* At most this many invocations of sdp_tx_update are followed.
MaxInvocations == 5
\* At most this many ticks of the ensemble are followed through pes_apply.
MaxChainTicks == 2

\* Lengths a population may have: empty, a partial word, a full word
\* followed by a partial word.
PopLengthChoices == {0, 1, 33}

---------------------------------------------------------------------------
(* Program constants and arithmetic *)

\* Neurons per word of the spike vector (pes.c:58).
WordBits == 32
\* activity_filter_index of a rule that uses unfiltered activity.
Unfiltered == -1
\* Fractional bits of value_t (s16.15), the format io_printf's %k prints.
FracBits == 15
\* UINT32_MAX, as the signed 32-bit integer with the same bit pattern: the
\* run length that stands for "run forever".
UInt32Max == -1

Pow2(k) == 2 ^ k

\* A uint32_t counter is held as the signed 32-bit integer with the same bit
\* pattern, so that a value that wrapped below zero shows as a negative
\* number; + and - are then the machine's, and comparisons are unsigned.
Add32(a, b) == a + b
Sub32(a, b) == a - b
ULess(a, b) ==
  IF (a < 0) = (b < 0) THEN a < b ELSE b < 0

\* A 32-bit spike word is held as the set of the positions of its set bits,
\* position 0 being the most significant bit (weight 2^31) and position 31
\* the least significant one.
Word(bits) == bits

\* __builtin_clz on a 32-bit word; the ARM CLZ instruction gives 32 for 0.
Clz(x) ==
  IF x = {} THEN 32
  ELSE CHOOSE k \in x : \A j \in x : k <= j

\* data <<= skip.  A shift by the full width (skip = 32) is undefined in C:
\* the build yields either 0 (ARM register shift) or the word unchanged
\* (shift count taken modulo 32); `ub` picks which.
Shl32(data, skip, ub) ==
  IF skip >= 32 THEN (IF ub THEN data ELSE {})
  ELSE {k - skip : k \in {j \in data : j >= skip}}

\* value_t * value_t: the product of two s16.15 numbers, truncated downwards.
ValueMul(a, b) == (a * b) \div Pow2(FracBits)

CeilDiv(a, b) == (a + b - 1) \div b

RECURSIVE SumSeq(_)
SumSeq(s) == IF s = <<>> THEN 0 ELSE Head(s) + SumSeq(Tail(s))

\* All sequences over S of length 0..n.
RECURSIVE SeqsUpTo(_, _)
SeqsUpTo(S, n) ==
  IF n = 0 THEN {<<>>}
  ELSE LET shorter == SeqsUpTo(S, n - 1)
       IN  shorter \cup {Append(s, x) : s \in {t \in shorter : Len(t) = n - 1}, x \in S}


---------------------------------------------------------------------------
(* The configuration and the arguments of pes_apply *)

\* The modulatory filter collection: if_filter_t {size, output}, one error
\* vector of dimension 1 and one of dimension 2 (1.0; -2.0, 1.5 in s16.15).
ModulatoryChoices ==
  { << [size |-> 1, output |-> <<32768>>],
       [size |-> 2, output |-> <<-65536, 49152>>] >> }

\* pes_parameters_t without its decoder_row: an unfiltered rule on each
\* error signal (rates 0.1 and 0.5) and a rule on filtered activity.
RuleKinds ==
  { [learning_rate |-> 3277,  error_sig_index |-> 0, activity_filter_index |-> Unfiltered],
    [learning_rate |-> 16384, error_sig_index |-> 1, activity_filter_index |-> Unfiltered],
    [learning_rate |-> 6554,  error_sig_index |-> 1, activity_filter_index |-> 0] }

ErrorSize(filters, kind) == filters[kind.error_sig_index + 1].size

\* Rows are given to the rules contiguously, in the order of the table, so
\* that the row ranges of two rules are disjoint.
RECURSIVE RowsBefore(_, _, _)
RowsBefore(filters, kinds, i) ==
  IF i <= 1 THEN 0
  ELSE RowsBefore(filters, kinds, i - 1) + ErrorSize(filters, kinds[i - 1])

WithRows(filters, kinds) ==
  [i \in 1..Len(kinds) |->
     [learning_rate         |-> kinds[i].learning_rate,
      error_sig_index       |-> kinds[i].error_sig_index,
      decoder_row           |-> RowsBefore(filters, kinds, i),
      activity_filter_index |-> kinds[i].activity_filter_index]]

\* The PES region: address[0] is the rule count, the records follow it.
RegionChoices(filters) ==
  { [count |-> Len(kinds), rules |-> WithRows(filters, kinds)] :
      kinds \in SeqsUpTo(RuleKinds, MaxRules) }

\* Rows of the decoder matrix (g_n_output_dimensions): room for every rule.
NOutputDimensions == MaxRules * 2

\* Words that memory can hold from spikes[0] on: every word any pass reads.
MemWords == MaxRules * MaxPops * 2

\* 0x00000000, 0xC0000001 (neurons 0, 1 and 31 of the word), 0x40000000
\* (neuron 1 of the word), 0x00000001 (neuron 31 of the word).
WordChoices == <<Word({}), Word({0, 1, 31}), Word({1}), Word({31})>>

\* Memory images: word i is WordChoices[(a + b*i) mod 4], the same word
\* everywhere (b = 0) or the four words in turn (b = 1).
MemChoices ==
  { [i \in 0..(MemWords - 1) |-> WordChoices[((a + b * i) % Len(WordChoices)) + 1]] :
      a \in 0..(Len(WordChoices) - 1), b \in {0, 1} }

\* The decoder matrix as loaded: row-major, n_neurons_total columns.
LoadedDecoder(n_neurons_total) ==
  [i \in 0..(NOutputDimensions * n_neurons_total - 1) |-> 7 * i + 1]

NPopulations == Len(population_lengths)
NNeuronsTotal == SumSeq(population_lengths)

\* ceil(N/32): the words of a spike vector that packs the N neurons.
PackedWords == CeilDiv(NNeuronsTotal, WordBits)

---------------------------------------------------------------------------
(* pes_initialise *)

NoCall(dec) ==
  [pc |-> "none", l |-> 0, p |-> 0, pop_length |-> 0, n |-> 0, word_n |-> 0,
   data |-> {}, decoder_col |-> 0, spikes |-> 0, decoder |-> dec,
   fired |-> <<>>, reads |-> <<>>, scans |-> 0, word_col |-> 0]

PesInit ==
  /\ pes_pc = "boot"
  /\ modulatory_filters \in ModulatoryChoices
  /\ region \in RegionChoices(modulatory_filters)
  /\ g_num_pes_learning_rules = 0
  /\ g_pes_learning_rules = <<>>
  /\ n_allocations = 0
  /\ init_result = "none"
  /\ population_lengths \in SeqsUpTo(PopLengthChoices, MaxPops)
  /\ mem \in MemChoices
  /\ decoder0 = LoadedDecoder(SumSeq(population_lengths))
  /\ call = NoCall(decoder0)

\* Mutant of NeedsAllocation: the array is allocated whatever the count.
NeedsAllocation_Always(count) == count >= 0

\* if(g_num_pes_learning_rules > 0): only then is the array allocated.
NeedsAllocation(count) == count > 0

\* pes_initialise(address): `malloc_ok` is whether spin1_malloc succeeds.
\* The rule count is stored first (pes.c:111); MALLOC_FAIL_FALSE returns
\* false when the allocation fails, leaving the pointer NULL.
PesInitialise(malloc_ok) ==
  /\ pes_pc = "boot"
  /\ g_num_pes_learning_rules' = region.count
  /\ IF NeedsAllocation(region.count)
     THEN IF malloc_ok
          THEN /\ n_allocations' = n_allocations + 1
               /\ g_pes_learning_rules' = SubSeq(region.rules, 1, region.count)
               /\ init_result' = "true"
               /\ pes_pc' = "ready"
          ELSE /\ n_allocations' = n_allocations
               /\ g_pes_learning_rules' = <<>>
               /\ init_result' = "false"
               /\ pes_pc' = "halted"
     ELSE /\ n_allocations' = n_allocations
          /\ g_pes_learning_rules' = g_pes_learning_rules
          /\ init_result' = "true"
          /\ pes_pc' = "ready"
  /\ UNCHANGED <<region, population_lengths, mem, modulatory_filters, call,
                 decoder0, mainVars, txVars, tickVars>>

---------------------------------------------------------------------------
(* pes_apply *)

\* Mutant of UnfilteredRule: every rule of the table is processed.
UnfilteredRule_Any(params) == params.activity_filter_index >= Unfiltered

\* if(params->activity_filter_index == -1)
UnfilteredRule(params) == params.activity_filter_index = Unfiltered

\* Mutant of NeuronsLeft: a word is loaded before the length is tested.
NeuronsLeft_Always(pop_length) == pop_length >= 0

\* while (pop_length)
NeuronsLeft(pop_length) == pop_length # 0

\* Mutant of FiresInWord: any set bit left in the word counts as a neuron.
FiresInWord_AnyBit(skip, n) == ULess(skip, WordBits)

\* if (skip < n)
FiresInWord(skip, n) == ULess(skip, n)

\* Mutant of WordNeurons: every word is taken to hold 32 neurons.
WordNeurons_Full(pop_length) == WordBits

\* uint32_t n = (pop_length > 32) ? 32 : pop_length;
WordNeurons(pop_length) ==
  IF ULess(WordBits, pop_length) THEN WordBits ELSE pop_length

\* Flat index of the entry at row decoder_row + d, column decoder_col:
\* rule_decoder = &decoder[decoder_row * n_neurons_total], then
\* neuron_decoder = &rule_decoder[decoder_col], advanced by n_neurons_total
\* for each output dimension.
NeuronDecoder(decoder_row, n_neurons_total, decoder_col, d) ==
  decoder_row * n_neurons_total + decoder_col + d * n_neurons_total

\* *neuron_decoder -= (params->learning_rate * error_val[d]);
PesDelta(old, learning_rate, error) == old - ValueMul(learning_rate, error)

\* for(uint d = 0; d < error_sig->size; d++, neuron_decoder += n_neurons_total)
RECURSIVE PesUpdate(_, _, _, _, _, _)
PesUpdate(decoder, params, error_sig, n_neurons_total, decoder_col, d) ==
  IF d < error_sig.size
  THEN LET i == NeuronDecoder(params.decoder_row, n_neurons_total, decoder_col, d)
       IN  PesUpdate([decoder EXCEPT ![i] = PesDelta(@, params.learning_rate,
                                                    error_sig.output[d + 1])],
                     params, error_sig, n_neurons_total, decoder_col, d + 1)
  ELSE decoder

\* Mutant of EntryCall: the call works on the matrix as it was loaded, not
\* on the one it is handed.
EntryCall_Loaded(dec) ==
  [NoCall(LoadedDecoder(NNeuronsTotal)) EXCEPT !.pc = "rule"]

\* The state of a call at its entry: l = 0, the spike pointer at spikes[0].
EntryCall(dec) == [NoCall(dec) EXCEPT !.pc = "rule"]

\* for(uint32_t l = 0; l < g_num_pes_learning_rules; l++) with the test of
\* the rule's activity_filter_index: an unfiltered rule starts its pass at
\* decoder_col = 0, p = 0; any other rule is stepped over.
ForRule(num, rules, c) ==
  IF ULess(c.l, num)
  THEN IF UnfilteredRule(rules[c.l + 1])
       THEN [c EXCEPT !.pc = "pop", !.decoder_col = 0, !.p = 0]
       ELSE [c EXCEPT !.l = c.l + 1]
  ELSE [c EXCEPT !.pc = "done"]

\* for (uint32_t p = 0; p < n_populations; p++): load pop_length, or leave
\* the loop and go on to the next rule.
ForPopulation(pops, c) ==
  IF ULess(c.p, Len(pops))
  THEN [c EXCEPT !.pop_length = pops[c.p + 1], !.pc = "word"]
  ELSE [c EXCEPT !.l = c.l + 1, !.pc = "rule"]

\* while (pop_length): n = min(32, pop_length); data = *(spikes++);
\* or leave the loop and go on to the next population.
WhilePopLength(memory, c) ==
  IF NeuronsLeft(c.pop_length)
  THEN [c EXCEPT !.n = WordNeurons(c.pop_length),
                 !.word_n = WordNeurons(c.pop_length),
                 !.data = memory[c.spikes],
                 !.spikes = c.spikes + 1,
                 !.reads = Append(c.reads, [l |-> c.l, p |-> c.p, w |-> c.spikes,
                                         n |-> WordNeurons(c.pop_length)]),
                 !.scans = 0,
                 !.word_col = c.decoder_col,
                 !.pc = "scan"]
  ELSE [c EXCEPT !.p = c.p + 1, !.pc = "pop"]

\* Mutant of WhileN: the word is scanned one neuron per step, by a test of
\* its top bit.
WhileN_PerNeuron(rules, filters, n_neurons_total, c, ub) ==
  IF c.n # 0
  THEN LET params    == rules[c.l + 1]
           error_sig == filters[params.error_sig_index + 1]
           next      == [c EXCEPT !.decoder_col = Add32(c.decoder_col, 1),
                                  !.pop_length  = Sub32(c.pop_length, 1),
                                  !.n           = Sub32(c.n, 1),
                                  !.data        = Shl32(c.data, 1, ub),
                                  !.scans       = c.scans + 1]
       IN  IF 0 \in c.data
           THEN [next EXCEPT
                   !.decoder = PesUpdate(c.decoder, params, error_sig,
                                         n_neurons_total, c.decoder_col, 0),
                   !.fired   = Append(c.fired,
                                      [l |-> c.l, p |-> c.p, col |-> c.decoder_col,
                                       w |-> c.spikes - 1,
                                       k |-> c.word_n - c.n,
                                       n |-> c.word_n])]
           ELSE next
  ELSE [c EXCEPT !.pc = "word"]

\* while (n): one count of leading zeros, then either the update of the
\* decoders of the neuron found or the skip of the rest of the word.  The
\* call counts in `scans` the counts of leading zeros made on the word, and
\* keeps in `word_col` the column the word started at.
WhileN(rules, filters, n_neurons_total, c, ub) ==
  IF c.n # 0
  THEN LET skip == Clz(c.data)
       IN  IF FiresInWord(skip, c.n)
           THEN LET col       == Add32(c.decoder_col, skip)
                    params    == rules[c.l + 1]
                    error_sig == filters[params.error_sig_index + 1]
                IN  [c EXCEPT
                       !.decoder     = PesUpdate(c.decoder, params, error_sig,
                                                 n_neurons_total, col, 0),
                       !.decoder_col = Add32(col, 1),
                       !.pop_length  = Sub32(c.pop_length, skip + 1),
                       !.n           = Sub32(c.n, skip + 1),
                       !.data        = Shl32(c.data, skip + 1, ub),
                       !.scans       = c.scans + 1,
                       !.fired       = Append(c.fired,
                                              [l |-> c.l, p |-> c.p, col |-> col,
                                               w |-> c.spikes - 1,
                                               k |-> (c.word_n - c.n) + skip,
                                               n |-> c.word_n])]
           ELSE [c EXCEPT !.decoder_col = Add32(c.decoder_col, c.n),
                          !.pop_length  = Sub32(c.pop_length, c.n),
                          !.n           = 0,
                          !.scans       = c.scans + 1]
  ELSE [c EXCEPT !.pc = "word"]

\* One step of pes_apply from the state c.
PesStep(num, rules, pops, memory, filters, c, ub) ==
  CASE c.pc = "rule" -> ForRule(num, rules, c)
    [] c.pc = "pop"  -> ForPopulation(pops, c)
    [] c.pc = "word" -> WhilePopLength(memory, c)
    [] c.pc = "scan" -> WhileN(rules, filters, SumSeq(pops), c, ub)
    [] OTHER         -> c

\* The state in which the call that is in state c returns.
RECURSIVE RunCall(_, _, _, _, _, _, _)
RunCall(num, rules, pops, memory, filters, c, ub) ==
  IF c.pc \in {"rule", "pop", "word", "scan"}
  THEN RunCall(num, rules, pops, memory, filters,
               PesStep(num, rules, pops, memory, filters, c, ub), ub)
  ELSE c

\* pes_apply(rules): one whole call on the arguments of the state, from the
\* decoder matrix dec.
PesApply(rules, dec, ub) ==
  RunCall(Len(rules), rules, population_lengths, mem, modulatory_filters,
          EntryCall(dec), ub)

PesFrame == <<region, g_num_pes_learning_rules, g_pes_learning_rules,
              n_allocations, init_result, population_lengths, mem,
              modulatory_filters, decoder0, mainVars, txVars, tickVars>>

\* The tick handler calls pes_apply once the rule table is loaded.
ApplyEnter ==
  /\ pes_pc = "ready"
  /\ pes_pc' = "apply"
  /\ call' = EntryCall(call.decoder)
  /\ UNCHANGED PesFrame

ApplyForRule ==
  /\ pes_pc = "apply" /\ call.pc = "rule"
  /\ call' = ForRule(g_num_pes_learning_rules, g_pes_learning_rules, call)
  /\ pes_pc' = IF call'.pc = "done" THEN "done" ELSE "apply"
  /\ UNCHANGED PesFrame

ApplyForPopulation ==
  /\ pes_pc = "apply" /\ call.pc = "pop"
  /\ call' = ForPopulation(population_lengths, call)
  /\ UNCHANGED <<pes_pc, PesFrame>>

ApplyWhilePopLength ==
  /\ pes_pc = "apply" /\ call.pc = "word"
  /\ call' = WhilePopLength(mem, call)
  /\ UNCHANGED <<pes_pc, PesFrame>>

ApplyWhileN(ub) ==
  /\ pes_pc = "apply" /\ call.pc = "scan"
  /\ call' = WhileN(g_pes_learning_rules, modulatory_filters, NNeuronsTotal,
                    call, ub)
  /\ UNCHANGED <<pes_pc, PesFrame>>

---------------------------------------------------------------------------
(* c_main of the ensemble *)

\* The one-time steps of c_main whose result is tested, in program order,
\* and the unchecked loaders between data_system and the gains.
UncheckedLoaders ==
  <<"data_get_bias", "data_get_encoders", "data_get_decoders", "data_get_keys">>
FilterLoaders ==
  <<"filters_input", "routes_input", "filters_inhibitory", "routes_inhibitory",
    "filters_modulatory", "routes_modulatory", "filters_learnt_encoder",
    "routes_learnt_encoder">>
InitSteps ==
  <<"data_system">> \o UncheckedLoaders \o <<"malloc_gains">> \o FilterLoaders
  \o <<"get_pes", "get_voja", "get_filtered_activity", "record_spikes_init",
       "record_learnt_encoders_init", "profiler_read_region", "set_timer_tick">>

\* The statements of the while (true) loop, and the RUNNING phase.
LoopPcs == {"flush", "event_wait", "config_get_n_ticks", "reset_recording",
            "spin1_start", "running"}

IndexOf(step) == CHOOSE i \in 1..Len(InitSteps) : InitSteps[i] = step

\* The statement after an INIT step; the loop follows the last one.
After(step) ==
  IF IndexOf(step) = Len(InitSteps) THEN "flush"
  ELSE InitSteps[IndexOf(step) + 1]

MainFrame == <<pesVars, txVars, tickVars>>

\* if (!step(...)) { io_printf("... Failed ..."); return; }
Checked(step, ok) ==
  /\ main_pc = step
  /\ main_events' = Append(main_events, step)
  /\ IF ok
     THEN /\ main_pc' = After(step)
          /\ UNCHANGED <<main_failed, main_log>>
     ELSE /\ main_pc' = "returned"
          /\ main_failed' = main_failed \cup {step}
          /\ main_log' = main_log + 1
  /\ UNCHANGED <<main_runs, main_ticks, simulation_ticks, MainFrame>>

\* step(...); the result, if any, is not looked at.
Unchecked(step, ok) ==
  /\ main_pc = step
  /\ main_events' = Append(main_events, step)
  /\ main_pc' = After(step)
  /\ main_failed' = IF ok THEN main_failed ELSE main_failed \cup {step}
  /\ UNCHANGED <<main_log, main_runs, main_ticks, simulation_ticks, MainFrame>>

DataSystem(ok) == Checked("data_system", ok)

\* data_get_bias, data_get_encoders, data_get_decoders, data_get_keys:
\* each copies a region into memory it has to obtain, which may fail.
DataGet(ok) ==
  \E i \in 1..Len(UncheckedLoaders) : Unchecked(UncheckedLoaders[i], ok)

MallocGains(ok) == Checked("malloc_gains", ok)

\* The chain of input_filter_get_filters / input_filter_get_filter_routes
\* joined by ||: the first that fails ends it.
LoadFilters(ok) ==
  \E i \in 1..Len(FilterLoaders) : Checked(FilterLoaders[i], ok)

GetPes(ok) == Checked("get_pes", ok)
GetVoja(ok) == Checked("get_voja", ok)
GetFilteredActivity(ok) == Checked("get_filtered_activity", ok)
RecordSpikeBufferInitialise(ok) == Checked("record_spikes_init", ok)
RecordLearntEncodersInitialise(ok) == Checked("record_learnt_encoders_init", ok)
ProfilerReadRegion == Unchecked("profiler_read_region", TRUE)
SetTimerTick == Unchecked("set_timer_tick", TRUE)

LoopStep(from, to, done) ==
  /\ main_pc = from
  /\ main_pc' = to
  /\ main_events' = main_events \o done
  /\ UNCHANGED <<main_failed, main_log, main_runs, main_ticks,
                 simulation_ticks, MainFrame>>

\* spin1_flush_rx_packet_queue(); deschedule(TIMER_TICK);
FlushEvents ==
  LoopStep("flush", "event_wait",
           <<"spin1_flush_rx_packet_queue", "deschedule">>)

\* event_wait(): returns when the synchronisation signal arrives.
EventWait == LoopStep("event_wait", "config_get_n_ticks", <<"event_wait">>)

\* config_get_n_ticks(): sets simulation_ticks.
ConfigGetNTicks(n_ticks) ==
  /\ main_pc = "config_get_n_ticks"
  /\ main_pc' = "reset_recording"
  /\ simulation_ticks' = n_ticks
  /\ main_events' = Append(main_events, "config_get_n_ticks")
  /\ UNCHANGED <<main_failed, main_log, main_runs, main_ticks, MainFrame>>

\* Mutant of RecordingResets: the learnt-encoder buffer is not reset.
RecordingResets_SpikesOnly == <<"record_spike_buffer_reset">>

\* record_spike_buffer_reset(); record_learnt_encoders_reset();
RecordingResets ==
  <<"record_spike_buffer_reset", "record_learnt_encoders_reset">>

ResetRecording == LoopStep("reset_recording", "spin1_start", RecordingResets)

\* spin1_start(SYNC_WAIT): the RUNNING phase begins.
Spin1Start ==
  /\ main_pc = "spin1_start"
  /\ main_runs < MaxRuns
  /\ main_pc' = "running"
  /\ main_runs' = main_runs + 1
  /\ main_ticks' = 0
  /\ main_events' = Append(main_events, "spin1_start")
  /\ UNCHANGED <<main_failed, main_log, simulation_ticks, MainFrame>>

\* One timer tick of the RUNNING phase.
TimerTick ==
  /\ main_pc = "running"
  /\ main_ticks < simulation_ticks
  /\ main_ticks' = main_ticks + 1
  /\ main_events' = Append(main_events, "timer_tick")
  /\ UNCHANGED <<main_pc, main_failed, main_log, main_runs, simulation_ticks,
                 MainFrame>>

\* The run is over: spin1_start returns and the loop starts again.
RunEnd ==
  /\ main_pc = "running"
  /\ main_ticks >= simulation_ticks
  /\ pes_pc \in {"off", "ready"}
  /\ main_pc' = "flush"
  /\ main_events' = Append(main_events, "spin1_start returns")
  /\ UNCHANGED <<main_failed, main_log, main_runs, main_ticks,
                 simulation_ticks, MainFrame>>

---------------------------------------------------------------------------
(* sdp_tx: c_main, sdp_tx_update and mcpl_callback (sdp_tx_main.c) *)

\* What sdp_tx's actions leave alone of the other two components.
TxFrame == <<pesVars, main_pc, main_failed, main_log, main_runs, main_ticks,
             main_events, tickVars>>

\* Mutant of ExitDue: the run is ended one tick late.
ExitDue_Late(t, n_ticks) == n_ticks # UInt32Max /\ ULess(n_ticks, t)

\* simulation_ticks != UINT32_MAX && ticks >= simulation_ticks
ExitDue(t, n_ticks) == n_ticks # UInt32Max /\ ~ULess(t, n_ticks)

\* Mutant of SendDue: a message goes out with every invocation.
SendDue_Always(remaining) == TRUE

\* if (delay_remaining == 0)
SendDue(remaining) == remaining = 0

\* input_filter_step(&g_input, true): the output becomes what accumulated
\* since the previous step, and accumulation starts again.
InputFilterStep(input) == [accumulator |-> FALSE, output |-> input.accumulator]

\* c_main up to the loop: data_system copies the parameters and sets
\* delay_remaining; a failure of data_system (input_filter_initialise),
\* input_filter_get_filters or input_filter_get_filter_routes is logged and
\* c_main returns; else the tick period and the two callbacks are set.
TxInitialise(delay, ok) ==
  /\ tx_pc = "c_main"
  /\ g_sdp_tx' = [transmission_delay |-> delay]
  /\ delay_remaining' = delay
  /\ tx_pc' = IF ok THEN "event_wait" ELSE "returned"
  /\ UNCHANGED <<g_input, ticks, exit_requested, tx_runs, tx_log,
                 simulation_ticks, TxFrame>>

\* event_wait();
TxEventWait ==
  /\ tx_pc = "event_wait"
  /\ tx_pc' = "config_get_n_ticks"
  /\ UNCHANGED <<g_sdp_tx, delay_remaining, g_input, ticks, exit_requested,
                 tx_runs, tx_log, simulation_ticks, TxFrame>>

\* config_get_n_ticks();
TxConfigGetNTicks(n_ticks) ==
  /\ tx_pc = "config_get_n_ticks"
  /\ tx_pc' = "spin1_start"
  /\ simulation_ticks' = n_ticks
  /\ UNCHANGED <<g_sdp_tx, delay_remaining, g_input, ticks, exit_requested,
                 tx_runs, tx_log, TxFrame>>

\* The tick counts a RUNNING phase may start from.  Whether the kernel
\* counts from 0 again or goes on counting is its own business; and as a
\* run that goes on for ever brings the count up to UINT32_MAX, a count two
\* short of it is a start as well.
TickStartChoices == {"zero", "continued", "late"}

TickStart(from) ==
  CASE from = "zero"      -> 0
    [] from = "continued" -> ticks
    [] from = "late"      -> Sub32(UInt32Max, 2)

\* spin1_start(SYNC_WAIT): the RUNNING phase begins.
TxSpin1Start(from) ==
  /\ tx_pc = "spin1_start"
  /\ tx_runs < MaxRuns
  /\ tx_pc' = "running"
  /\ tx_runs' = tx_runs + 1
  /\ ticks' = TickStart(from)
  /\ exit_requested' = FALSE
  /\ UNCHANGED <<g_sdp_tx, delay_remaining, g_input, tx_log, simulation_ticks,
                 TxFrame>>

\* void sdp_tx_update(uint ticks, uint arg1), the whole handler: spin1_exit
\* does not leave the handler, so the filter step, the countdown and the
\* send of the invocation that asks for the end still take place.
SdpTxUpdate(t) ==
  LET exit      == ExitDue(t, simulation_ticks)
      stepped   == InputFilterStep(g_input)
      remaining == Sub32(delay_remaining, 1)
      send      == SendDue(remaining)
  IN  /\ exit_requested' = (exit_requested \/ exit)
      /\ g_input' = stepped
      /\ delay_remaining' =
           IF send THEN g_sdp_tx.transmission_delay ELSE remaining
      /\ tx_log' = Append(tx_log,
           [run   |-> tx_runs,
            ticks |-> t,
            simulation_ticks |-> simulation_ticks,
            exit  |-> exit,
            input |-> g_input.accumulator,
            did   |-> <<"input_filter_step">> \o
                      (IF send THEN <<"spin1_send_sdp_msg">> ELSE <<>>),
            sent  |-> IF send THEN <<stepped.output>> ELSE <<>>])
      /\ UNCHANGED <<tx_pc, g_sdp_tx, tx_runs, simulation_ticks, TxFrame>>

\* The timer fires in the RUNNING phase: the kernel counts the tick and
\* runs the TIMER_TICK callback with the count.
TxTimerTick ==
  /\ tx_pc = "running"
  /\ ~exit_requested
  /\ Len(tx_log) < MaxInvocations
  /\ ticks' = Add32(ticks, 1)
  /\ SdpTxUpdate(Add32(ticks, 1))

\* void mcpl_callback(uint key, uint payload): input_filter_mcpl_rx adds
\* the payload to what the filter has accumulated.
McplCallback ==
  /\ tx_pc \in {"event_wait", "config_get_n_ticks", "spin1_start", "running"}
  /\ ~g_input.accumulator
  /\ g_input' = [g_input EXCEPT !.accumulator = TRUE]
  /\ UNCHANGED <<tx_pc, g_sdp_tx, delay_remaining, ticks, exit_requested,
                 tx_runs, tx_log, simulation_ticks, TxFrame>>

\* spin1_exit(0) was called: spin1_start returns, while (true) goes round.
TxRunEnd ==
  /\ tx_pc = "running"
  /\ exit_requested
  /\ tx_pc' = "event_wait"
  /\ UNCHANGED <<g_sdp_tx, delay_remaining, g_input, ticks, exit_requested,
                 tx_runs, tx_log, simulation_ticks, TxFrame>>

---------------------------------------------------------------------------
(* The tick of the ensemble: filter step, pes_apply, the later stages *)

\* What the steps of a tick leave alone.
TickFrame == <<region, g_num_pes_learning_rules, g_pes_learning_rules,
               n_allocations, init_result, population_lengths, mem,
               main_pc, main_failed, main_log, main_runs, simulation_ticks,
               txVars>>

\* Mutant of InputFilterMcplRx: the packet goes straight into the outputs.
InputFilterMcplRx_IntoOutput(filters) ==
  [i \in DOMAIN filters |->
     [filters[i] EXCEPT !.output = [d \in DOMAIN @ |-> 0 - @[d]]]]

\* The outputs of the filters after a packet was received: a packet is
\* accumulated for the next filter step, the outputs stay as they are.
InputFilterMcplRx(filters) == filters

\* The outputs after a filter step: they decay, and take in what has come
\* since the previous step.
ModulatoryStep(filters, input) ==
  [i \in DOMAIN filters |->
     [filters[i] EXCEPT !.output =
        [d \in DOMAIN @ |-> IF input THEN 0 - @[d] ELSE @[d] \div 2]]]

LastTick == tick_log[Len(tick_log)]

\* (1) step the input filters: the timer tick begins.
TickInputFilterStep ==
  /\ main_pc = "running"
  /\ pes_pc = "ready"
  /\ main_ticks < simulation_ticks
  /\ Len(tick_log) < MaxChainTicks
  /\ main_ticks' = main_ticks + 1
  /\ main_events' = Append(main_events, "timer_tick")
  /\ modulatory_filters' = ModulatoryStep(modulatory_filters, modulatory_input)
  /\ modulatory_input' = FALSE
  /\ pes_pc' = "stepped"
  /\ tick_log' = Append(tick_log,
       [run     |-> main_runs,
        did     |-> <<"input_filter_step">>,
        stepped |-> modulatory_filters',
        errors  |-> <<>>,
        entry   |-> <<>>,
        exit    |-> <<>>,
        rx      |-> <<>>])
  /\ UNCHANGED <<call, decoder0, TickFrame>>

\* (2) pes_apply is called on the decoder matrix and the modulatory filters.
TickPesApply ==
  /\ pes_pc = "stepped"
  /\ pes_pc' = "apply"
  /\ call' = EntryCall(call.decoder)
  /\ decoder0' = call'.decoder
  /\ tick_log' = [tick_log EXCEPT ![Len(tick_log)] =
       [@ EXCEPT !.did = Append(@, "pes_apply"),
                 !.errors = modulatory_filters,
                 !.entry = call'.decoder]]
  /\ UNCHANGED <<modulatory_filters, modulatory_input, main_ticks, main_events,
                 TickFrame>>

\* (3)-(6) pes_apply has returned: the later stages read the matrix.
TickRest ==
  /\ pes_pc = "done"
  /\ pes_pc' = "ready"
  /\ tick_log' = [tick_log EXCEPT ![Len(tick_log)] =
       [@ EXCEPT !.did = Append(@, "later stages"),
                 !.exit = call.decoder,
                 !.rx = <<>>]]
  /\ UNCHANGED <<call, decoder0, modulatory_filters, modulatory_input,
                 main_ticks, main_events, TickFrame>>

\* A multicast packet for the modulatory filters is received in the RUNNING
\* phase: the packet callback runs, between any two steps of whatever else is going on.  Until
\* pes_apply has returned and the tick goes on, the tick's record notes how
\* many decoder writes the call had made when the packet came.
PacketReceived ==
  /\ main_pc = "running"
  /\ ~modulatory_input
  /\ modulatory_input' = TRUE
  /\ modulatory_filters' = InputFilterMcplRx(modulatory_filters)
  /\ tick_log' = IF pes_pc = "apply"
                 THEN [tick_log EXCEPT ![Len(tick_log)].rx =
                         Append(@, Len(call.fired))]
                 ELSE tick_log
  /\ UNCHANGED <<pes_pc, call, decoder0, main_ticks, main_events, TickFrame>>

---------------------------------------------------------------------------
(* Specifications *)

\* The ticks of the ensemble are not looked at.
TickIdle ==
  /\ modulatory_input = FALSE
  /\ tick_log = <<>>

\* sdp_tx is not looked at.
TxIdle ==
  /\ tx_pc = "off"
  /\ g_sdp_tx = [transmission_delay |-> 0]
  /\ delay_remaining = 0
  /\ g_input = [accumulator |-> FALSE, output |-> FALSE]
  /\ ticks = 0
  /\ exit_requested = FALSE
  /\ tx_runs = 0
  /\ tx_log = <<>>

\* sdp_tx at the entry of its c_main.
TxInit ==
  /\ tx_pc = "c_main"
  /\ g_sdp_tx = [transmission_delay |-> 0]
  /\ delay_remaining = 0
  /\ g_input = [accumulator |-> FALSE, output |-> FALSE]
  /\ ticks = 0
  /\ exit_requested = FALSE
  /\ tx_runs = 0
  /\ tx_log = <<>>

\* c_main is not running: the PES engine is looked at on its own.
MainIdle ==
  /\ main_pc = "off"
  /\ main_failed = {}
  /\ main_log = 0
  /\ main_runs = 0
  /\ main_ticks = 0
  /\ simulation_ticks = 0
  /\ main_events = <<>>

\* The PES engine is not looked at: c_main on its own.
PesIdle ==
  /\ pes_pc = "off"
  /\ modulatory_filters = <<>>
  /\ region = [count |-> 0, rules |-> <<>>]
  /\ g_num_pes_learning_rules = 0
  /\ g_pes_learning_rules = <<>>
  /\ n_allocations = 0
  /\ init_result = "none"
  /\ population_lengths = <<>>
  /\ mem = <<>>
  /\ decoder0 = <<>>
  /\ call = NoCall(<<>>)

MainInit ==
  /\ main_pc = "data_system"
  /\ main_failed = {}
  /\ main_log = 0
  /\ main_runs = 0
  /\ main_ticks = 0
  /\ simulation_ticks = 0
  /\ main_events = <<>>

Init == PesInit /\ MainIdle /\ TxIdle /\ TickIdle

Next ==
  \/ \E malloc_ok \in BOOLEAN : PesInitialise(malloc_ok)
  \/ ApplyEnter
  \/ ApplyForRule
  \/ ApplyForPopulation
  \/ ApplyWhilePopLength
  \/ \E ub \in BOOLEAN : ApplyWhileN(ub)

Spec == Init /\ [][Next]_vars

InitMain == PesIdle /\ MainInit /\ TxIdle /\ TickIdle

NextMain ==
  \/ \E ok \in BOOLEAN : DataSystem(ok)
  \/ \E ok \in BOOLEAN : DataGet(ok)
  \/ \E ok \in BOOLEAN : MallocGains(ok)
  \/ \E ok \in BOOLEAN : LoadFilters(ok)
  \/ \E ok \in BOOLEAN : GetPes(ok)
  \/ \E ok \in BOOLEAN : GetVoja(ok)
  \/ \E ok \in BOOLEAN : GetFilteredActivity(ok)
  \/ \E ok \in BOOLEAN : RecordSpikeBufferInitialise(ok)
  \/ \E ok \in BOOLEAN : RecordLearntEncodersInitialise(ok)
  \/ ProfilerReadRegion
  \/ SetTimerTick
  \/ FlushEvents
  \/ EventWait
  \/ \E n_ticks \in 0..MaxTicks : ConfigGetNTicks(n_ticks)
  \/ ResetRecording
  \/ Spin1Start
  \/ TimerTick
  \/ RunEnd

SpecMain == InitMain /\ [][NextMain]_vars

InitTx == PesIdle /\ MainIdle /\ TxInit /\ TickIdle

NextTx ==
  \/ \E delay \in 0..MaxDelay, ok \in BOOLEAN : TxInitialise(delay, ok)
  \/ TxEventWait
  \/ \E n_ticks \in (0..MaxTicks) \cup {UInt32Max} : TxConfigGetNTicks(n_ticks)
  \/ \E from \in TickStartChoices : TxSpin1Start(from)
  \/ TxTimerTick
  \/ McplCallback
  \/ TxRunEnd

SpecTx == InitTx /\ [][NextTx]_vars

\* The ensemble after a successful INIT, at the top of while (true): the
\* rule table is loaded, the decoder matrix is the loaded one.
InitTick ==
  /\ pes_pc = "ready"
  /\ modulatory_filters \in ModulatoryChoices
  /\ region \in {r \in RegionChoices(modulatory_filters) : r.count \in 1..2}
  /\ g_num_pes_learning_rules = region.count
  /\ g_pes_learning_rules = region.rules
  /\ n_allocations = 1
  /\ init_result = "true"
  /\ population_lengths \in {<<1>>, <<1, 1>>}
  /\ mem \in {m \in MemChoices : 0 \in m[0]}
  /\ decoder0 = LoadedDecoder(SumSeq(population_lengths))
  /\ call = NoCall(decoder0)
  /\ main_pc = "flush"
  /\ main_failed = {}
  /\ main_log = 0
  /\ main_runs = 0
  /\ main_ticks = 0
  /\ simulation_ticks = 0
  /\ main_events = InitSteps
  /\ TxIdle
  /\ TickIdle

NextTick ==
  \/ FlushEvents
  \/ EventWait
  \/ \E n_ticks \in 0..MaxTicks : ConfigGetNTicks(n_ticks)
  \/ ResetRecording
  \/ Spin1Start
  \/ RunEnd
  \/ TickInputFilterStep
  \/ TickPesApply
  \/ ApplyForRule
  \/ ApplyForPopulation
  \/ ApplyWhilePopLength
  \/ \E ub \in BOOLEAN : ApplyWhileN(ub)
  \/ TickRest
  \/ PacketReceived

SpecTick == InitTick /\ [][NextTick]_vars

---------------------------------------------------------------------------
(* Vocabulary of the properties *)

Range(f) == {f[i] : i \in DOMAIN f}

\* The columns that the pass of rule l has treated as firing, in order.
RECURSIVE ColsOf(_, _)
ColsOf(fired, l) ==
  IF fired = <<>> THEN <<>>
  ELSE IF Head(fired).l = l
       THEN <<Head(fired).col>> \o ColsOf(Tail(fired), l)
       ELSE ColsOf(Tail(fired), l)

StrictlyIncreasing(s) == \A i \in 1..(Len(s) - 1) : s[i] < s[i + 1]

\* Bit position i of the packed vector S: neuron i mod 32 of word i div 32.
PackedBit(i) == (i % WordBits) \in mem[i \div WordBits]

\* The set bits of S among the positions 0..N-1.
PackedSetBits == {i \in 0..(NNeuronsTotal - 1) : PackedBit(i)}

\* The pass of rule l - 1 has just ended (the rule loop is at rule l, or
\* the call has returned) and that rule uses unfiltered activity.
PassEnded ==
  /\ pes_pc \in {"apply", "done"}
  /\ call.pc \in {"rule", "done"}
  /\ call.l > 0
  /\ UnfilteredRule(g_pes_learning_rules[call.l])

\* Layout by population: each population starts at a fresh word.
RECURSIVE WordsBefore(_, _)
WordsBefore(pops, p) ==
  IF p = 0 THEN 0
  ELSE WordsBefore(pops, p - 1) + CeilDiv(pops[p], WordBits)

ColumnsBefore(pops, p) == SumSeq(SubSeq(pops, 1, p))

\* The neurons that fired, as columns, when the spike vector at spikes[0]
\* holds each population from a fresh word on, most significant bit first.
FiringColumns ==
  UNION { { ColumnsBefore(population_lengths, q - 1) + i :
              i \in { j \in 0..(population_lengths[q] - 1) :
                        (j % WordBits) \in
                          mem[WordsBefore(population_lengths, q - 1)
                              + (j \div WordBits)] } } :
          q \in 1..NPopulations }

\* What the update law gives for the flat index i of the decoder matrix:
\* the loaded value less learning_rate * E[d] where i is row decoder_row + d
\* of an unfiltered rule and the column of a neuron that fired.
LawValue(rules, i) ==
  LET N   == NNeuronsTotal
      row == i \div N
      col == i % N
      hit == { l \in 1..Len(rules) :
                 /\ UnfilteredRule(rules[l])
                 /\ row >= rules[l].decoder_row
                 /\ row < rules[l].decoder_row
                            + modulatory_filters[rules[l].error_sig_index + 1].size }
  IN  IF hit # {} /\ col \in FiringColumns
      THEN LET l == CHOOSE x \in hit : TRUE
               E == modulatory_filters[rules[l].error_sig_index + 1].output
           IN  decoder0[i] - ValueMul(rules[l].learning_rate,
                                      E[row - rules[l].decoder_row + 1])
      ELSE decoder0[i]

\* The rule table without the rules on filtered activity.
UnfilteredOnly(rules) ==
  SelectSeq(rules, LAMBDA r : r.activity_filter_index = -1)

\* The words of the spike vector: those one pass over the populations reads.
SpikeVectorWords == WordsBefore(population_lengths, NPopulations)

\* Every word of the spike vector S is zero.
NoSpikes == \A w \in 0..(SpikeVectorWords - 1) : mem[w] = {}

---------------------------------------------------------------------------
(* Properties *)

\* C1: for a spike vector S of ceil(N/32) words, each pass of pes_apply over
\* an unfiltered rule examines the bit positions 0..N-1 once each (its
\* cursor ends at N) and treats as firing exactly the set bits of S, bit i
\* being column i, in strictly increasing order.  (Stated as claimed, for
\* the population lists whose words are the ceil(N/32) words of S; the code
\* violates it.)
C1_PassFiresSetBitsOfS ==
  (PassEnded /\ SpikeVectorWords = PackedWords) =>
    /\ call.decoder_col = NNeuronsTotal
    /\ StrictlyIncreasing(ColsOf(call.fired, call.l - 1))
    /\ Range(ColsOf(call.fired, call.l - 1)) = PackedSetBits

\* C2: when the call has returned, every entry at a row of an unfiltered
\* rule and the column of a neuron that fired is its loaded value less
\* learning_rate * E[d], and every other entry is as loaded.  (Stated as
\* claimed; the code violates it.)
C2_UpdateLaw ==
  pes_pc = "done" =>
    \A i \in DOMAIN call.decoder :
      call.decoder[i] = LawValue(g_pes_learning_rules, i)

\* C3: two unfiltered rules with disjoint rows give the same decoder matrix
\* in either order of the table, the one that one call per rule gives.
\* (Stated as claimed; the code violates it.)
C3_RuleOrderIrrelevant ==
  (/\ pes_pc = "ready"
   /\ Len(g_pes_learning_rules) = 2
   /\ \A l \in 1..2 : UnfilteredRule(g_pes_learning_rules[l])) =>
    LET r1 == g_pes_learning_rules[1]
        r2 == g_pes_learning_rules[2]
        ab == PesApply(<<r1, r2>>, call.decoder, FALSE).decoder
        ba == PesApply(<<r2, r1>>, call.decoder, FALSE).decoder
        a  == PesApply(<<r1>>, call.decoder, FALSE).decoder
        a_then_b == PesApply(<<r2>>, a, FALSE).decoder
    IN  ab = ba /\ ab = a_then_b

\* C4: if every word of the spike vector S is zero, pes_apply leaves every
\* entry of the decoder matrix as it was.  (Stated as claimed; the code
\* violates it.)
C4_NoSpikesNoChange ==
  NoSpikes => call.decoder = decoder0

\* C5: a rule whose activity_filter_index is not -1 is skipped: the call
\* reads the words, fires the columns and leaves the decoder matrix that
\* the same call leaves with those rules taken out of the table, and no
\* word read and no column fired belongs to such a rule.
C5_FilteredRuleSkipped ==
  pes_pc = "done" =>
    LET without == PesApply(UnfilteredOnly(g_pes_learning_rules), decoder0, FALSE)
    IN  /\ call.decoder = without.decoder
        /\ call.spikes = without.spikes
        /\ [i \in DOMAIN call.reads |-> call.reads[i].w]
             = [i \in DOMAIN without.reads |-> without.reads[i].w]
        /\ [i \in DOMAIN call.fired |-> call.fired[i].col]
             = [i \in DOMAIN without.fired |-> without.fired[i].col]
        /\ \A i \in DOMAIN call.reads :
             g_pes_learning_rules[call.reads[i].l + 1].activity_filter_index = -1
        /\ \A i \in DOMAIN call.fired :
             g_pes_learning_rules[call.fired[i].l + 1].activity_filter_index = -1

\* C5 witness: a call has returned whose table holds a rule on filtered
\* activity and an unfiltered rule that changed the decoder matrix.
C5_Witness ==
  /\ pes_pc = "done"
  /\ \E l \in DOMAIN g_pes_learning_rules :
       g_pes_learning_rules[l].activity_filter_index # -1
  /\ call.fired # <<>>
  /\ call.decoder # decoder0


\* C6: no bit beyond the declared length of a population is treated as a
\* firing neuron: every neuron treated as firing is one of the n neurons
\* that its word holds for the population (bit k of the word with k < n, n
\* being the neurons of the population left at that word), its bit is set,
\* and its column is a column of that population.
C6_NoBitBeyondLength ==
  \A i \in DOMAIN call.fired :
    LET e     == call.fired[i]
        start == ColumnsBefore(population_lengths, e.p)
        len   == population_lengths[e.p + 1]
        j     == e.col - start
    IN  /\ 0 <= e.k /\ e.k < e.n
        /\ e.k \in mem[e.w]
        /\ 0 <= j /\ j < len
        /\ j % WordBits = e.k
        /\ e.n = (IF len - WordBits * (j \div WordBits) > WordBits
                  THEN WordBits
                  ELSE len - WordBits * (j \div WordBits))

\* C6 witness: a call has returned in which a word held fewer than 32
\* neurons of its population, a neuron of it fired, and a bit of the word
\* beyond those neurons was set.
C6_Witness ==
  /\ pes_pc = "done"
  /\ \E i \in DOMAIN call.fired :
       /\ call.fired[i].n < WordBits
       /\ \E k \in mem[call.fired[i].w] : k >= call.fired[i].n

\* C7: a population of length 0 consumes no spike word and does not move
\* the column cursor: the two steps that process it (loading its length,
\* leaving its word loop) keep the read position, the words read and
\* decoder_col, and go on to the next population.
C7_EmptyPopulationNoEffect ==
  [][ (/\ pes_pc = "apply"
       /\ call.pc \in {"pop", "word"}
       /\ call.p < NPopulations
       /\ population_lengths[call.p + 1] = 0)
      => (/\ call'.spikes = call.spikes
          /\ call'.reads = call.reads
          /\ call'.decoder_col = call.decoder_col
          /\ call'.decoder = call.decoder
          /\ call.pc = "pop" => (call'.pc = "word" /\ call'.p = call.p)
          /\ call.pc = "word" => (call'.pc = "pop" /\ call'.p = call.p + 1)) ]_vars

\* C7 witness: a population of length 0 has just been processed after one
\* that moved the cursor and consumed words.
C7_Witness ==
  /\ pes_pc = "apply"
  /\ call.pc = "pop"
  /\ call.p > 1
  /\ population_lengths[call.p] = 0
  /\ call.decoder_col > 0
  /\ call.spikes > 0

\* C8: when the rule array cannot be allocated, pes_initialise returns
\* false and leaves the rule count and the rule collection as they were:
\* count 0, no rules.  (Stated as claimed; the code violates it.)
C8_FailedInitLeavesNoState ==
  init_result = "false" =>
    /\ g_num_pes_learning_rules = 0
    /\ g_pes_learning_rules = <<>>

\* C9: pes_initialise on a region whose rule count is 0 succeeds without
\* allocating and leaves the rule collection empty, and every later
\* pes_apply leaves the decoder matrix as it was.
C9_ZeroRules ==
  (region.count = 0 /\ pes_pc # "boot") =>
    /\ init_result = "true"
    /\ n_allocations = 0
    /\ g_num_pes_learning_rules = 0
    /\ g_pes_learning_rules = <<>>
    /\ call.decoder = decoder0
    /\ call.reads = <<>>

\* C9 witness: with a rule count of 0, pes_apply has returned from a call
\* on a spike vector in which a neuron fired.
C9_Witness ==
  /\ region.count = 0
  /\ pes_pc = "done"
  /\ FiringColumns # {}


\* C10: the failure of any one-time INIT step of c_main is terminal: once a
\* step has failed the IDLE/RUNNING loop is never entered and no RUNNING
\* phase or tick is run, and when INIT is over c_main has returned with a
\* diagnostic logged.  (Stated as claimed; the code violates it.)
C10_InitFailureIsTerminal ==
  main_failed # {} =>
    /\ main_pc \notin LoopPcs
    /\ main_runs = 0
    /\ main_ticks = 0
    /\ main_pc = "returned" => main_log > 0


\* The statements of c_main before position i of its history, most recent
\* last, as many as `want` holds.
Preceding(events, i, want) ==
  /\ i > Len(want)
  /\ SubSeq(events, i - Len(want), i - 1) = want

\* C11: INIT is executed once (no INIT step is repeated and none follows a
\* statement of the loop); every RUNNING phase (spin1_start) is immediately
\* preceded, in this order, by one event_wait, one config_get_n_ticks and
\* the reset of the spike and of the learnt-encoder recording buffer; ticks
\* run only inside a RUNNING phase; and when a RUNNING phase ends control is
\* back at the top of the loop, on its way to event_wait.
C11_SchedulerCycle ==
  LET ev     == main_events
      inits  == {i \in DOMAIN ev : ev[i] \in Range(InitSteps)}
      starts == {i \in DOMAIN ev : ev[i] = "spin1_start"}
  IN  /\ \A i \in inits : ev[i] = InitSteps[i]
      /\ \A i \in starts :
           Preceding(ev, i, <<"event_wait", "config_get_n_ticks",
                              "record_spike_buffer_reset",
                              "record_learnt_encoders_reset">>)
      /\ Cardinality(starts) = main_runs
      /\ Cardinality({i \in DOMAIN ev : ev[i] = "event_wait"})
           \in {main_runs, main_runs + 1}
      /\ \A i \in DOMAIN ev :
           ev[i] = "timer_tick" => ev[i - 1] \in {"spin1_start", "timer_tick"}
      /\ \A i \in DOMAIN ev :
           (ev[i] = "spin1_start returns" /\ i < Len(ev))
             => ev[i + 1] = "spin1_flush_rx_packet_queue"
      /\ (ev # <<>> /\ ev[Len(ev)] = "spin1_start returns") => main_pc = "flush"
      /\ main_pc = "running" <=>
           (ev # <<>> /\ ev[Len(ev)] \in {"spin1_start", "timer_tick"})

\* C11 witness: a second RUNNING phase has ended after ticks were run.
C11_Witness ==
  /\ main_runs = 2
  /\ main_pc = "flush"
  /\ main_ticks > 0
  /\ Cardinality({i \in DOMAIN main_events : main_events[i] = "timer_tick"}) > 1


\* C12: an invocation of sdp_tx_update asks for the end of the run exactly
\* when its tick count has reached simulation_ticks (compared as unsigned
\* numbers), so in every run the first such invocation asks and no earlier
\* one does; and with simulation_ticks = UINT32_MAX no invocation asks,
\* whatever its tick count.
C12_ExitAtRunLength ==
  \A i \in DOMAIN tx_log :
    LET e == tx_log[i]
        reached == e.ticks = e.simulation_ticks \/ ULess(e.simulation_ticks, e.ticks)
    IN  /\ e.simulation_ticks = UInt32Max => ~e.exit
        /\ e.simulation_ticks # UInt32Max => (e.exit <=> reached)
        /\ \A j \in 1..(i - 1) : tx_log[j].run = e.run => ~tx_log[j].exit

\* C12 witness: a run in which the second invocation was the first to ask
\* for the end, and a run for ever whose count reached UINT32_MAX unasked.
C12_Witness ==
  /\ \E i \in DOMAIN tx_log :
       /\ i > 1
       /\ tx_log[i].exit
       /\ tx_log[i - 1].run = tx_log[i].run
       /\ ~tx_log[i - 1].exit
  /\ \E k \in DOMAIN tx_log :
       /\ tx_log[k].simulation_ticks = UInt32Max
       /\ tx_log[k].ticks = UInt32Max
       /\ ~tx_log[k].exit

TickSteps == <<"input_filter_step", "pes_apply", "later stages">>

\* C13: every tick steps the filters, then calls pes_apply once, then runs
\* the later stages; pes_apply of tick n reads the outputs that tick n's
\* filter step produced; the matrix it starts from is the one tick n-1 left
\* (the loaded one at tick 1), also when the two ticks are in different
\* RUNNING phases; and between two ticks the matrix in memory is the one the
\* last tick left.
C13_LearningChained ==
  /\ \A n \in DOMAIN tick_log :
       LET e == tick_log[n]
       IN  /\ e.did = SubSeq(TickSteps, 1, Len(e.did))
           /\ n < Len(tick_log) => e.did = TickSteps
           /\ Len(e.did) >= 2 =>
                /\ e.errors = e.stepped
                /\ e.entry = IF n = 1 THEN LoadedDecoder(NNeuronsTotal)
                             ELSE tick_log[n - 1].exit
  /\ pes_pc = "apply" =>
       /\ LastTick.did = SubSeq(TickSteps, 1, 2)
       /\ decoder0 = LastTick.entry
       /\ modulatory_filters = LastTick.errors
  /\ (pes_pc \in {"ready", "stepped"} /\ tick_log # <<>>) =>
       LET last == IF pes_pc = "ready" THEN Len(tick_log) ELSE Len(tick_log) - 1
       IN  call.decoder = IF last = 0 THEN LoadedDecoder(NNeuronsTotal)
                          ELSE tick_log[last].exit

\* C13 witness: the second tick is in another RUNNING phase than the first,
\* started from a matrix the first tick had changed, and changed it again.
C13_Witness ==
  /\ Len(tick_log) >= 2
  /\ tick_log[1].run # tick_log[2].run
  /\ tick_log[2].did = TickSteps
  /\ tick_log[2].entry # LoadedDecoder(NNeuronsTotal)
  /\ tick_log[2].exit # tick_log[2].entry
  /\ tick_log[2].errors # tick_log[1].errors

\* C14: with a transmission delay T >= 1, the i-th invocation of
\* sdp_tx_update since start-up sends one message when i is a multiple of T
\* and none otherwise, whatever RUNNING phases the invocations fall in; a
\* send comes after the filter step of its invocation and carries the output
\* of that step.
C14_SendEveryTth ==
  LET T == g_sdp_tx.transmission_delay
  IN  T >= 1 =>
        \A i \in DOMAIN tx_log :
          LET e == tx_log[i]
          IN  /\ Len(e.sent) = (IF i % T = 0 THEN 1 ELSE 0)
              /\ e.did = IF i % T = 0
                         THEN <<"input_filter_step", "spin1_send_sdp_msg">>
                         ELSE <<"input_filter_step">>
              /\ e.sent # <<>> => e.sent[1] = e.input

\* C14 witness: T = 2, the first invocation in one RUNNING phase, the second
\* in the next one; the second and the fourth have sent.
C14_Witness ==
  /\ g_sdp_tx.transmission_delay = 2
  /\ Len(tx_log) >= 4
  /\ tx_log[1].run # tx_log[2].run
  /\ tx_log[2].sent # <<>>
  /\ tx_log[4].sent = <<TRUE>>


\* C15: the decoder matrix is changed by the write step of pes_apply and by
\* nothing else; a packet callback leaves the matrix, the activation of
\* pes_apply and the outputs of the modulatory filters as they are; and
\* while a pass is in progress the outputs stay the ones it started with,
\* so every rule of the pass reads the same error vectors.
C15_SingleWriter ==
  [][ /\ call'.decoder # call.decoder =>
           /\ pes_pc = "apply" /\ pes_pc' = "apply"
           /\ call.pc = "scan"
           /\ modulatory_input' = modulatory_input
      /\ (modulatory_input' /\ ~modulatory_input) =>
           /\ call' = call
           /\ modulatory_filters' = modulatory_filters
      /\ pes_pc = "apply" => modulatory_filters' = modulatory_filters
      /\ pes_pc' = "apply" =>
           modulatory_filters' = tick_log'[Len(tick_log')].errors
    ]_vars

\* C15 witness: a pass has returned during which a packet was received
\* between two of its decoder writes.
C15_Witness ==
  /\ pes_pc = "done"
  /\ tick_log # <<>>
  /\ \E i \in DOMAIN LastTick.rx :
       /\ LastTick.rx[i] > 0
       /\ LastTick.rx[i] < Len(call.fired)
  /\ \E i, j \in DOMAIN call.fired : call.fired[i].l # call.fired[j].l


\* C16: for a spike vector of ceil(N/32) words, every spike word pes_apply
\* reads has an index below ceil(N/32), whatever the number of unfiltered
\* rules.  (Stated for the population lists whose words are those ceil(N/32)
\* words.)
C16_ReadsInsideVector ==
  SpikeVectorWords = PackedWords =>
    \A i \in DOMAIN call.reads : call.reads[i].w < PackedWords

\* The neurons of the word in hand that fired: the set bits among its
\* word_n most significant positions.
PopulationBits == {k \in mem[call.spikes - 1] : k < call.word_n}

\* C17: in the pass of a rule decoder_col is 0 when the first population is
\* taken up and the sum of the lengths of the populations done at each later
\* one; while a word holding word_n neurons is scanned, decoder_col and n
\* add up to the column the word started at plus word_n, so that the word
\* moves the cursor by exactly word_n; every decoder write is to a column
\* below n_neurons_total; at the end of the pass decoder_col is
\* n_neurons_total; n and pop_length never fall below zero, and n never
\* exceeds pop_length.
C17_ColumnCursor ==
  pes_pc \in {"apply", "done"} =>
    LET c == call
        N == NNeuronsTotal
        before == ColumnsBefore(population_lengths, c.p)
    IN  /\ c.n >= 0 /\ c.pop_length >= 0 /\ c.n <= c.pop_length
        /\ c.pc = "pop" => c.decoder_col = before
        /\ (c.pc = "pop" /\ c.p = 0) => c.decoder_col = 0
        /\ (c.pc = "pop" /\ c.p = NPopulations) => c.decoder_col = N
        /\ c.pc = "word" =>
             c.decoder_col = before + population_lengths[c.p + 1] - c.pop_length
        /\ c.pc = "scan" =>
             /\ c.decoder_col + c.n = c.word_col + c.word_n
             /\ c.word_col + c.word_n + (c.pop_length - c.n)
                  = before + population_lengths[c.p + 1]
             /\ c.word_n = WordNeurons(c.pop_length - c.n + c.word_n)
        /\ PassEnded => c.decoder_col = N
        /\ \A i \in DOMAIN c.fired : c.fired[i].col >= 0 /\ c.fired[i].col < N

\* C17 witness: a pass over two populations, the first of more than one
\* word, has ended after decoder writes.
C17_Witness ==
  /\ PassEnded
  /\ NPopulations = 2
  /\ population_lengths[1] > WordBits
  /\ population_lengths[2] > 0
  /\ Len(ColsOf(call.fired, call.l - 1)) >= 2
  /\ call.decoder_col = NNeuronsTotal

\* A measure of what is left of a call: the rules to go, then the
\* populations to go in the rule's pass, then the neurons to go in the
\* population; every step of pes_apply has to bring it down.
Variant(c) ==
  LET K == 3 * NNeuronsTotal + 3
      A == NPopulations * K + 2
      R == g_num_pes_learning_rules - c.l
      P == NPopulations - c.p
  IN  CASE c.pc = "rule" -> R * A + 1
        [] c.pc = "pop"  -> (R - 1) * A + 2 + P * K
        [] c.pc = "word" -> (R - 1) * A + 2 + (P - 1) * K + 3 * c.pop_length + 1
        [] c.pc = "scan" -> (R - 1) * A + 2 + (P - 1) * K + 3 * c.pop_length
                              + (IF c.n = 0 THEN 2 ELSE 0)
        [] OTHER         -> 0

\* The counts of leading zeros made on the word in hand are at most one more
\* than the neurons of that word that fired.
ScanBound ==
  (pes_pc \in {"apply", "done"} /\ call.pc \in {"scan", "word"} /\ call.spikes > 0)
    => call.scans <= Cardinality(PopulationBits) + 1

\* C18: pes_apply terminates: every step of a call brings down a measure
\* that is never negative and is 0 only when the call has returned; and on a
\* spike word holding n neurons the number of leading-zero counts is at most
\* the number of set bits among the n bits of the population plus one.
C18_TerminatesScanBounded ==
  [][ pes_pc = "apply" =>
        /\ Variant(call') < Variant(call)
        /\ Variant(call') >= 0
        /\ (Variant(call') = 0) = (pes_pc' = "done")
        /\ ScanBound'
    ]_vars

\* C18 witness: a word of 32 neurons, three of which fired, has been scanned
\* through with three counts of leading zeros.
C18_Witness ==
  /\ pes_pc = "apply"
  /\ call.pc = "scan"
  /\ call.n = 0
  /\ call.word_n = WordBits
  /\ Cardinality(PopulationBits) = 3
  /\ call.scans = 3

\* The words the pass of rule l read for population p.
WordsRead(l, p) ==
  {call.reads[i].w : i \in {j \in DOMAIN call.reads :
                              call.reads[j].l = l /\ call.reads[j].p = p}}

\* C19: in the pass of a rule, population p is read from the words
\* (sum of ceil(length/32) over the earlier populations) onwards, as many as
\* ceil(length of p / 32), and the neuron at offset j of population p, at
\* column (sum of the earlier lengths) + j, is treated as firing exactly
\* when bit 31 - (j mod 32) of word (first word of p) + (j div 32) is set.
C19_BitToColumn ==
  PassEnded =>
    /\ Range(ColsOf(call.fired, call.l - 1)) = FiringColumns
    /\ \A p \in 0..(NPopulations - 1) :
         WordsRead(call.l - 1, p) =
           {w \in 0..(SpikeVectorWords - 1) :
              /\ w >= WordsBefore(population_lengths, p)
              /\ w < WordsBefore(population_lengths, p + 1)}

=============================================================================
